---------------------------- MODULE Spec2Model ----------------------------
(***************************************************************************)
(* DC Permit Navigator: the offline index build (scripts/build_index.py)   *)
(* and the query Lambda (lambda/handler.py).                               *)
(*                                                                         *)
(* Conventions of the model                                                *)
(*  - A Python dict is a function whose DOMAIN is the set of keys present. *)
(*  - A Python str is a TLA+ string; the chunk text, a "\n".join of parts, *)
(*    is the sequence of its parts (one part per line).                    *)
(*  - A Python float is an integer counting steps of double precision; the *)
(*    floats a 32-bit float can hold are the multiples of Float32Ulp.      *)
(*  - A file or a global that is absent / None is <<>>, otherwise <<v>>.    *)
(***************************************************************************)
EXTENDS Integers, Sequences, FiniteSets, TLC

VARIABLES
    \* ---- scripts/build_index.py: one run of build_index ----
    permit,         \* the record handed to chunk_permit (chunker runs)
    chunked,        \* what chunk_permit returned for it, <<>> before the call
    bpc,            \* position of the build_index run
    permits,        \* the corpus load_permits returned
    all_chunks,     \* build_index: all_chunks
    vectors,        \* build_index: vectors (what embed_text returned, in order)
    indexFile,      \* data/embeddings/permits.index on disk
    chunksFile,     \* data/embeddings/chunks.json on disk
    loaded,         \* what a fresh process's load_index made of the two artifacts
    \* ---- lambda/handler.py: one warm Lambda process ----
    s3Index,        \* the object at INDEX_KEY
    s3Chunks,       \* the object at CHUNKS_KEY
    tmpIndex,       \* /tmp/permits.index
    tmpChunks,      \* /tmp/chunks.json
    faiss_index,    \* global _faiss_index
    chunks,         \* global _chunks
    counterFile,    \* COUNTER_FILE (/tmp/query_counter.json)
    today,          \* the calendar date time.strftime("%Y-%m-%d") returns
    passesToday,    \* history: invocations that passed check_rate_limit on `today`
    event,          \* the event of the last lambda_handler invocation
    response,       \* what that invocation returned and which calls it made
    \* ---- search_index called directly ----
    query_vector,
    top_k,
    results

vars == <<permit, chunked, bpc, permits, all_chunks, vectors, indexFile,
          chunksFile, loaded, s3Index, s3Chunks, tmpIndex, tmpChunks,
          faiss_index, chunks, counterFile, today, passesToday, event,
          response, query_vector, top_k, results>>

buildVars   == <<bpc, permits, all_chunks, vectors, indexFile, chunksFile, loaded>>
chunkVars   == <<permit, chunked>>
handlerVars == <<s3Index, s3Chunks, tmpIndex, tmpChunks, faiss_index, chunks,
                 counterFile, today, passesToday, event, response>>
searchVars  == <<query_vector, top_k, results>>

(***************************************************************************)
(* Bounds of the model and program constants.                              *)
(***************************************************************************)
\* EMBEDDING_DIMENSIONS is 256 in the source; the model packs vectors of
\* this many floats.
EMBEDDING_DIMENSIONS == 2
\* One step of a 32-bit float, in steps of a Python float (2^29 in IEEE 754).
Float32Ulp == 2
MaxPermits == 2         \* records in the corpus of a build
MaxEmbed == 2           \* embed_text returns floats in 0..MaxEmbed
MaxVectors == 2         \* vectors in a store handed to search_index
MaxTopK == 3            \* largest top_k handed to search_index
MaxDay == 2             \* calendar dates the process lives through
TOP_K == 5
MAX_DAILY_QUERIES == 200
MaxQuestionLen == 500

Min(a, b) == IF a < b THEN a ELSE b
Abs(a) == IF a < 0 THEN -a ELSE a

(***************************************************************************)
(* dict.get(key, default)                                                  *)
(***************************************************************************)
Get(d, k, default) == IF k \in DOMAIN d THEN d[k] ELSE default

\* Optional values (a global that may be None, a file that may be absent):
\* <<>> is None / absent, <<v>> holds v.
Some(v) == <<v>>
IsNone(o) == o = <<>>
Val(o) == o[1]

(***************************************************************************)
(* scripts/build_index.py: chunk_permit                                    *)
(***************************************************************************)
\* ', '.join(list)
RECURSIVE JoinComma(_)
JoinComma(l) ==
    IF Len(l) = 0 THEN ""
    ELSE IF Len(l) = 1 THEN l[1]
    ELSE l[1] \o ", " \o JoinComma(Tail(l))

\* The optional string fields of a permit, in the order chunk_permit tests
\* them, with the label each one is given in the text.
OptionalFields == << <<"requirements", "Requirements">>,
                     <<"fees", "Fees">>,
                     <<"processing_time", "Processing Time">>,
                     <<"how_to_apply", "How to Apply">>,
                     <<"apply_url", "Application URL">>,
                     <<"notes", "Notes">> >>

\* parts.append(...) for i-th and later optional string fields: a part only
\* if permit.get(key) is truthy.
RECURSIVE OptionalParts(_, _)
OptionalParts(p, i) ==
    IF i > Len(OptionalFields) THEN <<>>
    ELSE LET key == OptionalFields[i][1]
             label == OptionalFields[i][2]
             here == IF key \in DOMAIN p /\ p[key] # ""
                     THEN << <<label, p[key]>> >>
                     ELSE <<>>
         IN here \o OptionalParts(p, i + 1)

\* if permit.get("related_permits"): parts.append("Related Permits: ...")
RelatedPart(p) ==
    IF "related_permits" \in DOMAIN p /\ Len(p["related_permits"]) > 0
    THEN << <<"Related Permits", JoinComma(p["related_permits"])>> >>
    ELSE <<>>

\* A mis-ordered chunker: Fees before Requirements.
chunk_text_swapped(p, agency_name, formerly) ==
    << <<"Permit", p["name"]>>,
       <<"Category", Get(p, "category", "N/A")>>,
       <<"Agency", agency_name>> >>
    \o (IF formerly # "" THEN << <<"(Formerly", formerly>> >> ELSE <<>>)
    \o << <<"Description", Get(p, "description", "N/A")>> >>
    \o (IF "fees" \in DOMAIN p /\ p["fees"] # ""
        THEN << <<"Fees", p["fees"]>> >> ELSE <<>>)
    \o (IF "requirements" \in DOMAIN p /\ p["requirements"] # ""
        THEN << <<"Requirements", p["requirements"]>> >> ELSE <<>>)
    \o OptionalParts(p, 3)
    \o RelatedPart(p)

\* The parts list of chunk_permit; text = "\n".join(parts).  A part
\* <<label, value>> is the line "label: value" (for "(Formerly" the line
\* "(Formerly: value)").
chunk_text(p, agency_name, formerly) ==
    << <<"Permit", p["name"]>>,
       <<"Category", Get(p, "category", "N/A")>>,
       <<"Agency", agency_name>> >>
    \o (IF formerly # "" THEN << <<"(Formerly", formerly>> >> ELSE <<>>)
    \o << <<"Description", Get(p, "description", "N/A")>> >>
    \o OptionalParts(p, 1)
    \o RelatedPart(p)

\* chunk_permit(permit, agencies): a list of one chunk.
chunk_permit(p, agencies) ==
    LET agency == Get(agencies, Get(p, "agency", ""), <<>>)
        agency_name == Get(agency, "name", "Unknown Agency")
        formerly == Get(agency, "formerly", "")
    IN << [text |-> chunk_text(p, agency_name, formerly),
           permit_id |-> p["id"],
           permit_name |-> p["name"],
           category |-> Get(p, "category", ""),
           agency |-> agency_name] >>

\* load_permits: the agency lookup, keyed by agency id.  One agency with a
\* former name, one without, one with an empty former name, one with no name.
Agencies ==
    [a \in {"dob", "dlcp", "ddot", "doee"} |->
        CASE a = "dob"  -> [k \in {"id", "name"} |->
                              IF k = "id" THEN "dob" ELSE "Department of Buildings"]
          [] a = "dlcp" -> [k \in {"id", "name", "formerly"} |->
                              CASE k = "id" -> "dlcp"
                                [] k = "name" -> "Licensing and Consumer Protection"
                                [] k = "formerly" -> "DCRA"]
          [] a = "ddot" -> [k \in {"id", "name", "formerly"} |->
                              CASE k = "id" -> "ddot"
                                [] k = "name" -> "Department of Transportation"
                                [] k = "formerly" -> ""]
          [] a = "doee" -> [k \in {"id"} |-> "doee"]]

\* The records of data/permits.json the chunker is run on.  Every optional
\* key is absent, present and empty, or present and non-empty.
Absent == "<absent>"
StringKeys == {"category", "description", "requirements", "fees",
               "processing_time", "how_to_apply", "apply_url", "notes"}
AgencyRefs == {Absent, "", "dob", "dlcp", "ddot", "doee", "zzz"}
RelatedChoices == {<<Absent>>, <<>>, <<"p2", "p3">>}

MakePermit(name, sel, agencyRef, related) ==
    LET keys == {"id", "name"}
                \cup {k \in StringKeys : sel[k] # Absent}
                \cup (IF agencyRef # Absent THEN {"agency"} ELSE {})
                \cup (IF related # <<Absent>> THEN {"related_permits"} ELSE {})
    IN [k \in keys |->
          CASE k = "id" -> "p1"
            [] k = "name" -> name
            [] k = "agency" -> agencyRef
            [] k = "related_permits" -> related
            [] OTHER -> sel[k]]

PermitRecords ==
    {MakePermit(name, sel, a, r) :
        name \in {"Deck Permit"},
        sel \in [StringKeys -> {Absent, "", "text"}],
        a \in AgencyRefs,
        r \in RelatedChoices}

(***************************************************************************)
(* The two artifacts: permits.index (binary) and chunks.json.              *)
(*                                                                         *)
(* A blob is [words, tail]: its whole 4-byte words in order (a uint32 or a *)
(* float32 each) and the number of bytes, 0..3, left after the last whole  *)
(* word.                                                                   *)
(***************************************************************************)
Blob(words, tail) == [words |-> words, tail |-> tail]
ByteLen(blob) == 4 * Len(blob.words) + blob.tail

\* struct.pack("f", x): the nearest 32-bit float, ties to the even one.
ToFloat32(x) ==
    LET q == x \div Float32Ulp
        r == x % Float32Ulp
    IN IF 2 * r < Float32Ulp THEN q * Float32Ulp
       ELSE IF 2 * r > Float32Ulp THEN (q + 1) * Float32Ulp
       ELSE IF q % 2 = 0 THEN q * Float32Ulp ELSE (q + 1) * Float32Ulp

\* struct.pack(f"{EMBEDDING_DIMENSIONS}f", *vec), for a vec of the right length.
PackVector(vec) == [k \in 1..Len(vec) |-> ToFloat32(vec[k])]

\* A writer that stores the vectors last to first.
RECURSIVE PackVectorsReversed(_, _)
PackVectorsReversed(vecs, i) ==
    IF i > Len(vecs) THEN [words |-> <<>>, ok |-> TRUE]
    ELSE IF Len(vecs[i]) # EMBEDDING_DIMENSIONS THEN [words |-> <<>>, ok |-> FALSE]
    ELSE LET rest == PackVectorsReversed(vecs, i + 1)
         IN [words |-> rest.words \o PackVector(vecs[i]), ok |-> rest.ok]

\* The words build_index writes for vecs[i..]; struct.pack raises
\* struct.error at the first vector whose length is not EMBEDDING_DIMENSIONS,
\* and what was written before it stays in the file.
RECURSIVE PackVectors(_, _)
PackVectors(vecs, i) ==
    IF i > Len(vecs) THEN [words |-> <<>>, ok |-> TRUE]
    ELSE IF Len(vecs[i]) # EMBEDDING_DIMENSIONS THEN [words |-> <<>>, ok |-> FALSE]
    ELSE LET rest == PackVectors(vecs, i + 1)
         IN [words |-> PackVector(vecs[i]) \o rest.words, ok |-> rest.ok]

\* with open(index_path, "wb") as f: ...  -> the file left on disk, and
\* whether the block completed.
WriteIndex(vecs) ==
    LET body == PackVectors(vecs, 1)
    IN [blob |-> Blob(<<Len(vecs), EMBEDDING_DIMENSIONS>> \o body.words, 0),
        ok |-> body.ok]

\* json.dump(all_chunks, f): a list of objects, each the key/value pairs of
\* the dict in insertion order.
ChunkKeys == <<"text", "permit_id", "permit_name", "category", "agency">>
JsonDump(list) ==
    [i \in 1..Len(list) |->
        [j \in 1..Len(ChunkKeys) |-> <<ChunkKeys[j], list[i][ChunkKeys[j]]>>]]

\* json.load(f): each object becomes a dict.
JsonLoad(file) ==
    [i \in 1..Len(file) |->
        [k \in {file[i][j][1] : j \in 1..Len(file[i])} |->
            LET j == CHOOSE j \in 1..Len(file[i]) :
                        /\ file[i][j][1] = k
                        /\ \A m \in (j + 1)..Len(file[i]) : file[i][m][1] # k
            IN file[i][j][2]]]

(***************************************************************************)
(* lambda/handler.py: load_index                                           *)
(***************************************************************************)
\* The for loop of load_index: vectors i.. of num_vectors, or failure when
\* struct.unpack is handed fewer than dimensions*4 bytes.
RECURSIVE UnpackVectors(_, _, _, _)
UnpackVectors(blob, num_vectors, dimensions, i) ==
    IF i >= num_vectors THEN [vectors |-> <<>>, ok |-> TRUE]
    ELSE LET offset == 8 + i * dimensions * 4
         IN IF offset + dimensions * 4 > ByteLen(blob)
            THEN [vectors |-> <<>>, ok |-> FALSE]
            ELSE LET first == offset \div 4
                     vec == [k \in 1..dimensions |-> blob.words[first + k]]
                     rest == UnpackVectors(blob, num_vectors, dimensions, i + 1)
                 IN [vectors |-> <<vec>> \o rest.vectors, ok |-> rest.ok]

\* Lines 82-92: parse the blob into {"vectors", "dimensions"}.
ParseIndex(blob) ==
    IF ByteLen(blob) < 8
    THEN [ok |-> FALSE, index |-> <<>>]
    ELSE LET num_vectors == blob.words[1]
             dimensions == blob.words[2]
             got == UnpackVectors(blob, num_vectors, dimensions, 0)
         IN IF got.ok
            THEN [ok |-> TRUE,
                  index |-> Some([vectors |-> got.vectors, dimensions |-> dimensions])]
            ELSE [ok |-> FALSE, index |-> <<>>]

\* load_index() in a process whose globals and /tmp files are `st`, against
\* the stored objects; `fail` names the download that raises, if any.
\* Returns the globals and files afterwards, the exception raised ("" when it
\* returned) and the reads made.
load_index(st, objIndex, objChunks, fail) ==
    IF ~IsNone(st.faiss_index) /\ ~IsNone(st.chunks)
    THEN [st EXCEPT !.err = "", !.s3Gets = 0, !.fileReads = 0]
    ELSE
    LET needChunks == IsNone(st.tmpChunks)
        gets1 == IF needChunks THEN 1 ELSE 0
    IN IF needChunks /\ fail = "chunks"
       THEN [st EXCEPT !.err = "ClientError: GetObject chunks.json",
                       !.s3Gets = 1, !.fileReads = 0]
       ELSE
       LET tmpC == IF needChunks THEN Some(objChunks) ELSE st.tmpChunks
           ch == Some(JsonLoad(Val(tmpC)))
           needIndex == IsNone(st.tmpIndex)
           gets2 == gets1 + (IF needIndex THEN 1 ELSE 0)
       IN IF needIndex /\ fail = "index"
          THEN [st EXCEPT !.tmpChunks = tmpC, !.chunks = ch,
                          !.err = "ClientError: GetObject permits.index",
                          !.s3Gets = gets2, !.fileReads = 1]
          ELSE
          LET tmpI == IF needIndex THEN Some(objIndex) ELSE st.tmpIndex
              parsed == ParseIndex(Val(tmpI))
          IN IF parsed.ok
             THEN [st EXCEPT !.tmpChunks = tmpC, !.chunks = ch, !.tmpIndex = tmpI,
                             !.faiss_index = parsed.index,
                             !.err = "", !.s3Gets = gets2, !.fileReads = 2]
             ELSE [st EXCEPT !.tmpChunks = tmpC, !.chunks = ch, !.tmpIndex = tmpI,
                             !.err = "struct.error: unpack requires a buffer",
                             !.s3Gets = gets2, !.fileReads = 2]

\* A process that has loaded nothing yet.
FreshProcess ==
    [tmpChunks |-> <<>>, tmpIndex |-> <<>>, chunks |-> <<>>, faiss_index |-> <<>>,
     err |-> "", s3Gets |-> 0, fileReads |-> 0]

(***************************************************************************)
(* lambda/handler.py: cosine_similarity and search_index                   *)
(*                                                                         *)
(* A score is kept as the fraction <<n, d>>, d > 0, standing for the float *)
(* sign(n) * sqrt(|n| / d): scores are only ever compared, and x -> x*|x|  *)
(* is strictly increasing, so the order and the equality of scores are     *)
(* those of the fractions.  Rounding of float arithmetic is not modelled.  *)
(***************************************************************************)
\* sum(x * y for x, y in zip(a, b)): zip stops at the shorter vector.
RECURSIVE Dot(_, _, _)
Dot(a, b, k) ==
    IF k > Len(a) \/ k > Len(b) THEN 0
    ELSE a[k] * b[k] + Dot(a, b, k + 1)

cosine_similarity(a, b) ==
    LET dot == Dot(a, b, 1)
        norm_a2 == Dot(a, a, 1)
        norm_b2 == Dot(b, b, 1)
    IN IF norm_a2 = 0 \/ norm_b2 = 0 THEN <<0, 1>>
       ELSE <<dot * Abs(dot), norm_a2 * norm_b2>>

ScoreLess(s, t) == s[1] * t[2] < t[1] * s[2]
ScoreEq(s, t) == s[1] * t[2] = t[1] * s[2]

\* A sort that puts an entry before the entries of equal score already
\* placed: not stable.
RECURSIVE SortUnstable(_, _)
SortUnstable(sims, i) ==
    IF i = 0 THEN <<>>
    ELSE LET sorted == SortUnstable(sims, i - 1)
             x == sims[i]
             before == Cardinality({j \in 1..Len(sorted) :
                                      ScoreLess(x[2], sorted[j][2])})
         IN SubSeq(sorted, 1, before) \o <<x>>
            \o SubSeq(sorted, before + 1, Len(sorted))

\* similarities.sort(key=lambda x: x[1], reverse=True) on sims[1..i]:
\* list.sort is stable, also under reverse=True, so an entry goes after
\* every entry of greater or equal score that was before it in the list.
RECURSIVE SortByScoreDesc(_, _)
SortByScoreDesc(sims, i) ==
    IF i = 0 THEN <<>>
    ELSE LET sorted == SortByScoreDesc(sims, i - 1)
             x == sims[i]
             before == Cardinality({j \in 1..Len(sorted) :
                                      ~ScoreLess(sorted[j][2], x[2])})
         IN SubSeq(sorted, 1, before) \o <<x>>
            \o SubSeq(sorted, before + 1, Len(sorted))

\* l[:k]
Slice(l, k) ==
    IF k >= 0 THEN SubSeq(l, 1, Min(k, Len(l)))
    ELSE SubSeq(l, 1, IF Len(l) + k > 0 THEN Len(l) + k ELSE 0)

\* search_index(query_vector, top_k) with global _faiss_index = index.
\* Entries are <<i, score>>, i counted from 0.
search_index(index, qv, k) ==
    IF IsNone(index) THEN <<>>
    ELSE LET vs == Val(index).vectors
             similarities == [i \in 1..Len(vs) |->
                                <<i - 1, cosine_similarity(qv, vs[i])>>]
         IN Slice(SortByScoreDesc(similarities, Len(similarities)), k)

(***************************************************************************)
(* lambda/handler.py: check_rate_limit                                     *)
(***************************************************************************)
\* A limiter that tests the count after incrementing it: one query too many.
check_rate_limit_off_by_one(file, date) ==
    LET read == IF IsNone(file) THEN [date |-> date, count |-> 0] ELSE Val(file)
        counter == IF read.date # date THEN [date |-> date, count |-> 0] ELSE read
    IN IF counter.count > MAX_DAILY_QUERIES
       THEN [pass |-> FALSE, file |-> file]
       ELSE [pass |-> TRUE,
             file |-> Some([date |-> date, count |-> counter.count + 1])]

\* check_rate_limit() with COUNTER_FILE = file on the date `date`: whether
\* it returned True, and COUNTER_FILE afterwards.
check_rate_limit(file, date) ==
    LET read == IF IsNone(file) THEN [date |-> date, count |-> 0] ELSE Val(file)
        counter == IF read.date # date THEN [date |-> date, count |-> 0] ELSE read
    IN IF counter.count >= MAX_DAILY_QUERIES
       THEN [pass |-> FALSE, file |-> file]
       ELSE [pass |-> TRUE,
             file |-> Some([date |-> date, count |-> counter.count + 1])]

(***************************************************************************)
(* lambda/handler.py: lambda_handler                                       *)
(*                                                                         *)
(* An event is [method, body, question, pad, core]:                        *)
(*   body     "absent" (no "body" key), "unparseable" (json.loads raises), *)
(*            "nonobject" (parses to a list) or "object";                  *)
(*   question of an object body: "missing", "nonstring" or "str";          *)
(*   pad/core of a str question: the number of leading and trailing        *)
(*            whitespace characters and the length of what lies between.   *)
(***************************************************************************)
Event(method, body, question, pad, core) ==
    [method |-> method, body |-> body, question |-> question,
     pad |-> pad, core |-> core]

Events ==
    { Event("OPTIONS", "absent", "missing", 0, 0),
      Event("POST", "absent", "missing", 0, 0),
      Event("POST", "unparseable", "missing", 0, 0),
      Event("POST", "nonobject", "missing", 0, 0),
      Event("POST", "object", "missing", 0, 0),
      Event("POST", "object", "nonstring", 0, 0),
      Event("POST", "object", "str", 0, 0),
      Event("POST", "object", "str", 1, 0),
      Event("POST", "object", "str", 0, 1),
      Event("POST", "object", "str", 1, MaxQuestionLen),
      Event("POST", "object", "str", 0, MaxQuestionLen + 1) }

\* len(question) after question = body.get("question", "").strip()
StrippedLen(ev) == IF ev.question = "str" THEN ev.core ELSE 0

\* cors_response(status_code, body) together with what the invocation did:
\* the S3 downloads, file reads and Bedrock calls it made, whether
\* check_rate_limit returned True for it, and how many search results the
\* test idx < len(_chunks) skipped.
Response(status, body, s3Gets, fileReads, embedCalls, genCalls, counted, dropped) ==
    [status |-> status, body |-> body, s3Gets |-> s3Gets, fileReads |-> fileReads,
     embedCalls |-> embedCalls, genCalls |-> genCalls, counted |-> counted,
     dropped |-> dropped]

ErrorBody(e) ==
    [k \in {"error", "detail"} |->
        IF k = "error" THEN "Something went wrong. Please try again." ELSE e]

\* Lines 254-268 for results[i..]: the indexes whose chunk text goes into
\* the context; a result with idx >= len(_chunks) is skipped.
RECURSIVE ContextIndexes(_, _, _)
ContextIndexes(res, cs, i) ==
    IF i > Len(res) THEN <<>>
    ELSE (IF res[i][1] < Len(cs) THEN <<res[i][1]>> ELSE <<>>)
         \o ContextIndexes(res, cs, i + 1)

\* source_permits: one entry per permit_id, in order of first appearance
\* (the rounded score of an entry is left out).
RECURSIVE SourcePermits(_, _, _)
SourcePermits(idxs, cs, i) ==
    IF i = 0 THEN <<>>
    ELSE LET sofar == SourcePermits(idxs, cs, i - 1)
             chunk == cs[idxs[i] + 1]
         IN IF \E j \in 1..Len(sofar) : sofar[j].permit_id = chunk.permit_id
            THEN sofar
            ELSE Append(sofar, [permit_id |-> chunk.permit_id,
                                permit_name |-> chunk.permit_name,
                                agency |-> chunk.agency])

\* What embed_text may do at query time: raise (<<>>) or return a vector.
QueryEmbeddings ==
    { <<>>,
      Some([k \in 1..EMBEDDING_DIMENSIONS |-> IF k = 1 THEN 1 ELSE 0]),
      Some([k \in 1..EMBEDDING_DIMENSIONS |-> 1]) }

\* Lines 218-232 without the length test: an over-long question goes on.
ParseRequestNoLengthCheck(ev) ==
    IF ev.method = "OPTIONS"
    THEN Some([status |-> 200, body |-> [k \in {"message"} |-> "OK"]])
    ELSE IF ev.body = "unparseable"
    THEN Some([status |-> 500, body |-> ErrorBody("JSONDecodeError: Expecting value")])
    ELSE IF ev.body = "nonobject"
    THEN Some([status |-> 500,
               body |-> ErrorBody("AttributeError: 'list' object has no attribute 'get'")])
    ELSE IF ev.body = "object" /\ ev.question = "nonstring"
    THEN Some([status |-> 500,
               body |-> ErrorBody("AttributeError: 'int' object has no attribute 'strip'")])
    ELSE IF StrippedLen(ev) = 0
    THEN Some([status |-> 400, body |-> [k \in {"error"} |-> "Question is required"]])
    ELSE <<>>

\* Lines 218-232: the preflight answer, the parse of the body and the two
\* tests of the question.  The response the handler returns at this point,
\* or <<>> when it goes on to the limiter.  An exception raised here is
\* caught at line 282 and answered with 500.
ParseRequest(ev) ==
    IF ev.method = "OPTIONS"
    THEN Some([status |-> 200, body |-> [k \in {"message"} |-> "OK"]])
    ELSE IF ev.body = "unparseable"
    THEN Some([status |-> 500, body |-> ErrorBody("JSONDecodeError: Expecting value")])
    ELSE IF ev.body = "nonobject"
    THEN Some([status |-> 500,
               body |-> ErrorBody("AttributeError: 'list' object has no attribute 'get'")])
    ELSE IF ev.body = "object" /\ ev.question = "nonstring"
    THEN Some([status |-> 500,
               body |-> ErrorBody("AttributeError: 'int' object has no attribute 'strip'")])
    ELSE IF StrippedLen(ev) = 0
    THEN Some([status |-> 400, body |-> [k \in {"error"} |-> "Question is required"]])
    ELSE IF StrippedLen(ev) > MaxQuestionLen
    THEN Some([status |-> 400,
               body |-> [k \in {"error"} |-> "Question too long (max 500 characters)"]])
    ELSE <<>>

\* lambda_handler(event, context) in a process `st` with COUNTER_FILE = file
\* on date `date`.  fail: the download of load_index that raises, if any;
\* emb: what embed_text does; genOk: whether generate_answer returns.
\* Gives the process, COUNTER_FILE and the response afterwards.
lambda_handler(ev, st, file, date, objIndex, objChunks, fail, emb, genOk) ==
    LET out(st2, file2, resp) == [st |-> st2, file |-> file2, response |-> resp]
        early == ParseRequest(ev)
    IN
    IF ~IsNone(early)
    THEN out(st, file, Response(Val(early).status, Val(early).body,
                                0, 0, 0, 0, FALSE, 0))
    ELSE
    LET limit == check_rate_limit(file, date)
    IN IF ~limit.pass
       THEN out(st, limit.file,
                Response(429, [k \in {"error", "answer"} |->
                                 IF k = "error"
                                 THEN "Daily query limit reached. Try again tomorrow."
                                 ELSE "I've reached my daily query limit"],
                         0, 0, 0, 0, FALSE, 0))
       ELSE
       LET ld == load_index(st, objIndex, objChunks, fail)
       IN IF ld.err # ""
          THEN out(ld, limit.file,
                   Response(500, ErrorBody(ld.err), ld.s3Gets, ld.fileReads,
                            0, 0, TRUE, 0))
          ELSE IF IsNone(emb)
          THEN out(ld, limit.file,
                   Response(500, ErrorBody("ThrottlingException: InvokeModel titan-embed"),
                            ld.s3Gets, ld.fileReads, 1, 0, TRUE, 0))
          ELSE
          LET res == search_index(ld.faiss_index, Val(emb), TOP_K)
              cs == Val(ld.chunks)
              idxs == ContextIndexes(res, cs, 1)
              dropped == Len(res) - Len(idxs)
          IN IF ~genOk
             THEN out(ld, limit.file,
                      Response(500, ErrorBody("ThrottlingException: InvokeModel claude-3-haiku"),
                               ld.s3Gets, ld.fileReads, 1, 1, TRUE, dropped))
             ELSE out(ld, limit.file,
                      Response(200,
                               [k \in {"answer", "sources", "query"} |->
                                  CASE k = "answer" -> <<"answer">>
                                    [] k = "sources" -> SourcePermits(idxs, cs, Len(idxs))
                                    [] k = "query" -> <<ev.core>>],
                               ld.s3Gets, ld.fileReads, 1, 1, TRUE, dropped))

(***************************************************************************)
(* The chunker run on one record.                                          *)
(***************************************************************************)
IdleChunk == permit = <<>> /\ chunked = <<>>

InitChunk ==
    /\ permit \in PermitRecords
    /\ chunked = <<>>

\* chunks = chunk_permit(permit, agencies)
ChunkPermit ==
    /\ IsNone(chunked)
    /\ chunked' = Some(chunk_permit(permit, Agencies))
    /\ UNCHANGED <<permit, buildVars, handlerVars, searchVars>>

(***************************************************************************)
(* scripts/build_index.py: build_index, one run                            *)
(***************************************************************************)
\* Two records of a corpus: one with the required keys only, one with
\* optional fields and an agency that has a former name.
SamplePermits ==
    { [k \in {"id", "name"} |-> IF k = "id" THEN "p1" ELSE "Deck Permit"],
      [k \in {"id", "name", "agency", "category", "fees", "related_permits"} |->
          CASE k = "id" -> "p2"
            [] k = "name" -> "Sidewalk Cafe"
            [] k = "agency" -> "dlcp"
            [] k = "category" -> "business"
            [] k = "fees" -> "$75"
            [] k = "related_permits" -> <<"p1">>] }

Corpora == UNION {[1..n -> SamplePermits] : n \in 0..MaxPermits}

\* What the embedding service may return: EMBEDDING_DIMENSIONS floats (here
\* the vectors with at most one non-zero component), or (a service fault)
\* one float fewer.
EmbedReturns ==
    {[k \in 1..EMBEDDING_DIMENSIONS |-> IF k = j THEN x ELSE 0] :
        j \in 1..EMBEDDING_DIMENSIONS, x \in 0..MaxEmbed}
    \cup {[k \in 1..(EMBEDDING_DIMENSIONS - 1) |-> 0]}

IdleBuild ==
    /\ bpc = "idle"
    /\ permits = <<>>
    /\ all_chunks = <<>>
    /\ vectors = <<>>
    /\ indexFile = <<>>
    /\ chunksFile = <<>>
    /\ loaded = <<>>

InitBuild ==
    /\ bpc = "chunk"
    /\ permits \in Corpora
    /\ all_chunks = <<>>
    /\ vectors = <<>>
    /\ indexFile = <<>>
    /\ chunksFile = <<>>
    /\ loaded = <<>>

\* Lines 122-125: all_chunks.extend(chunk_permit(permit, agencies)) for
\* permits i.. in order.
RECURSIVE ChunkAllFrom(_, _)
ChunkAllFrom(ps, i) ==
    IF i > Len(ps) THEN <<>>
    ELSE chunk_permit(ps[i], Agencies) \o ChunkAllFrom(ps, i + 1)

ChunkAll ==
    /\ bpc = "chunk"
    /\ all_chunks' = ChunkAllFrom(permits, 1)
    /\ bpc' = "embed"
    /\ UNCHANGED <<permits, vectors, indexFile, chunksFile, loaded>>
    /\ UNCHANGED <<chunkVars, handlerVars, searchVars>>

\* Lines 133-139, one iteration whose embed_text call returns vec.
EmbedChunk ==
    /\ bpc = "embed"
    /\ Len(vectors) < Len(all_chunks)
    /\ \E vec \in EmbedReturns : vectors' = Append(vectors, vec)
    /\ UNCHANGED <<bpc, permits, all_chunks, indexFile, chunksFile, loaded>>
    /\ UNCHANGED <<chunkVars, handlerVars, searchVars>>

\* Lines 133-139, one iteration whose embed_text call raises: the exception
\* leaves build_index.
EmbedRaises ==
    /\ bpc = "embed"
    /\ Len(vectors) < Len(all_chunks)
    /\ bpc' = "failed"
    /\ UNCHANGED <<permits, all_chunks, vectors, indexFile, chunksFile, loaded>>
    /\ UNCHANGED <<chunkVars, handlerVars, searchVars>>

\* Lines 144-154: mkdir and the with-block writing permits.index.  open()
\* may raise OSError (nothing written); struct.pack raises on a vector of
\* the wrong length (the file keeps what was written).
SaveIndex ==
    /\ bpc = "embed"
    /\ Len(vectors) = Len(all_chunks)
    /\ \E oserror \in BOOLEAN :
          IF oserror
          THEN bpc' = "failed" /\ UNCHANGED indexFile
          ELSE LET w == WriteIndex(vectors)
               IN /\ indexFile' = Some(w.blob)
                  /\ bpc' = IF w.ok THEN "save_chunks" ELSE "failed"
    /\ UNCHANGED <<permits, all_chunks, vectors, chunksFile, loaded>>
    /\ UNCHANGED <<chunkVars, handlerVars, searchVars>>

\* Lines 160-162: the with-block writing chunks.json; open() may raise
\* OSError.
SaveChunks ==
    /\ bpc = "save_chunks"
    /\ \E oserror \in BOOLEAN :
          IF oserror
          THEN bpc' = "failed" /\ UNCHANGED chunksFile
          ELSE chunksFile' = Some(JsonDump(all_chunks)) /\ bpc' = "done"
    /\ UNCHANGED <<permits, all_chunks, vectors, indexFile, loaded>>
    /\ UNCHANGED <<chunkVars, handlerVars, searchVars>>

\* The two artifacts of a completed build, published and loaded by a fresh
\* process's load_index().
LoadBuilt ==
    /\ bpc = "done"
    /\ IsNone(loaded)
    /\ loaded' = Some(load_index(FreshProcess, Val(indexFile), Val(chunksFile), "none"))
    /\ UNCHANGED <<bpc, permits, all_chunks, vectors, indexFile, chunksFile>>
    /\ UNCHANGED <<chunkVars, handlerVars, searchVars>>

(***************************************************************************)
(* search_index called on a loaded store.                                  *)
(***************************************************************************)
StoreVectors == [1..EMBEDDING_DIMENSIONS -> {-Float32Ulp, 0, Float32Ulp}]
Stores == UNION {[1..n -> StoreVectors] : n \in 0..MaxVectors}
Queries == [1..EMBEDDING_DIMENSIONS -> {0, 1}]

IdleSearch == query_vector = <<>> /\ top_k = 0 /\ results = <<>>

InitSearchInputs ==
    /\ faiss_index \in {Some([vectors |-> vs, dimensions |-> EMBEDDING_DIMENSIONS]) :
                           vs \in Stores}
    /\ query_vector \in Queries
    /\ top_k \in 0..MaxTopK
    /\ results = <<>>

\* results = search_index(query_vector, top_k)
SearchIndex ==
    /\ IsNone(results)
    /\ results' = Some(search_index(faiss_index, query_vector, top_k))
    /\ UNCHANGED <<query_vector, top_k, chunkVars, buildVars, handlerVars>>

(***************************************************************************)
(* One warm Lambda process serving invocations one at a time.              *)
(***************************************************************************)
UnitVector(i) == [k \in 1..EMBEDDING_DIMENSIONS |-> IF k = i THEN Float32Ulp ELSE 0]

\* The index a build of the two sample records publishes.
BuiltVectors == <<UnitVector(1), UnitVector(2)>>
BuiltChunks ==
    ChunkAllFrom(<<CHOOSE p \in SamplePermits : p["id"] = "p1",
                   CHOOSE p \in SamplePermits : p["id"] = "p2">>, 1)
BuiltIndexBlob == WriteIndex(BuiltVectors).blob

Stored(blob, file) == [index |-> blob, chunks |-> file]

\* The pair a completed build publishes.
GoodStorage == {Stored(BuiltIndexBlob, JsonDump(BuiltChunks))}

\* Pairs that are not one index: a record count that differs from
\* vector_count, a blob cut short, a blob with bytes after the last vector.
BadStorage ==
    { Stored(BuiltIndexBlob, JsonDump(SubSeq(BuiltChunks, 1, 1))),
      Stored(WriteIndex(SubSeq(BuiltVectors, 1, 1)).blob, JsonDump(BuiltChunks)),
      Stored(Blob(SubSeq(BuiltIndexBlob.words, 1, Len(BuiltIndexBlob.words) - 1), 3),
             JsonDump(BuiltChunks)),
      Stored(Blob(BuiltIndexBlob.words, 1), JsonDump(BuiltChunks)),
      Stored(Blob(BuiltIndexBlob.words \o <<0>>, 0), JsonDump(BuiltChunks)) }

IdleHandler ==
    /\ s3Index = <<>>
    /\ s3Chunks = <<>>
    /\ tmpIndex = <<>>
    /\ tmpChunks = <<>>
    /\ faiss_index = <<>>
    /\ chunks = <<>>
    /\ counterFile = <<>>
    /\ today = 1
    /\ passesToday = 0
    /\ event = <<>>
    /\ response = <<>>

\* A cold start against the stored pair `stored`.
ColdStart(stored) ==
    /\ s3Index = stored.index
    /\ s3Chunks = stored.chunks
    /\ tmpIndex = <<>>
    /\ tmpChunks = <<>>
    /\ faiss_index = <<>>
    /\ chunks = <<>>
    /\ counterFile = <<>>
    /\ today = 1
    /\ passesToday = 0
    /\ event = <<>>
    /\ response = <<>>

Process ==
    [tmpChunks |-> tmpChunks, tmpIndex |-> tmpIndex, chunks |-> chunks,
     faiss_index |-> faiss_index, err |-> "", s3Gets |-> 0, fileReads |-> 0]

\* The request gets past the tests of lines 218-232, so the handler goes on to
\* the limiter and the services.
Accepted(ev) == IsNone(ParseRequest(ev))

Handled(ev, fail, emb, genOk) ==
    \E out \in {lambda_handler(ev, Process, counterFile, today,
                               s3Index, s3Chunks, fail, emb, genOk)} :
       /\ tmpChunks' = out.st.tmpChunks
       /\ tmpIndex' = out.st.tmpIndex
       /\ chunks' = out.st.chunks
       /\ faiss_index' = out.st.faiss_index
       /\ counterFile' = out.file
       /\ event' = Some(ev)
       /\ response' = Some(out.response)
       /\ passesToday' = passesToday + (IF out.response.counted THEN 1 ELSE 0)
       /\ UNCHANGED <<s3Index, s3Chunks, today, chunkVars, buildVars, searchVars>>

\* The download of load_index that raises: none, that of chunks.json or that
\* of permits.index.  A process whose index is cached makes no download.
DownloadFaults ==
    IF ~IsNone(faiss_index) /\ ~IsNone(chunks) THEN {"none"}
    ELSE {"none", "chunks", "index"}

\* What the two Bedrock calls do: embed_text raises, or returns a vector and
\* generate_answer then returns or raises.
ServiceOutcomes ==
    {[emb |-> e, genOk |-> g] : e \in QueryEmbeddings, g \in BOOLEAN} \
        {[emb |-> <<>>, genOk |-> TRUE]}

\* One invocation of lambda_handler, start to return.
LambdaHandler ==
    \E ev \in Events :
        IF Accepted(ev)
        THEN \E fail \in DownloadFaults, svc \in ServiceOutcomes :
                Handled(ev, fail, svc.emb, svc.genOk)
        ELSE Handled(ev, "none", <<>>, FALSE)

\* Midnight: time.strftime("%Y-%m-%d") returns the next date from now on.
Midnight ==
    /\ today < MaxDay
    /\ today' = today + 1
    /\ passesToday' = 0
    /\ UNCHANGED <<s3Index, s3Chunks, tmpIndex, tmpChunks, faiss_index, chunks,
                   counterFile, event, response>>
    /\ UNCHANGED <<chunkVars, buildVars, searchVars>>

(***************************************************************************)
(* Specifications.                                                         *)
(***************************************************************************)
\* chunk_permit on every record of PermitRecords.
InitChunker == InitChunk /\ IdleBuild /\ IdleHandler /\ IdleSearch
NextChunker == ChunkPermit
SpecChunker == InitChunker /\ [][NextChunker]_vars

\* One run of build_index, then a load of what it wrote.
Init == IdleChunk /\ InitBuild /\ IdleHandler /\ IdleSearch
Next ==
    \/ ChunkAll
    \/ EmbedChunk
    \/ EmbedRaises
    \/ SaveIndex
    \/ SaveChunks
    \/ LoadBuilt
Spec == Init /\ [][Next]_vars

\* search_index on every store of Stores.
InitSearch ==
    /\ IdleChunk /\ IdleBuild /\ InitSearchInputs
    /\ s3Index = <<>> /\ s3Chunks = <<>> /\ tmpIndex = <<>> /\ tmpChunks = <<>>
    /\ chunks = <<>> /\ counterFile = <<>> /\ today = 1 /\ passesToday = 0
    /\ event = <<>> /\ response = <<>>
NextSearch == SearchIndex
SpecSearch == InitSearch /\ [][NextSearch]_vars

\* A Lambda process against a published index.
InitHandler ==
    /\ IdleChunk /\ IdleBuild /\ IdleSearch
    /\ \E stored \in GoodStorage : ColdStart(stored)
NextHandler ==
    \/ LambdaHandler
    \/ Midnight
SpecHandler == InitHandler /\ [][NextHandler]_vars

\* A Lambda process against stored pairs that may be corrupt, on one date.
InitLoader ==
    /\ IdleChunk /\ IdleBuild /\ IdleSearch
    /\ \E stored \in GoodStorage \cup BadStorage : ColdStart(stored)
NextLoader == LambdaHandler
SpecLoader == InitLoader /\ [][NextLoader]_vars

(***************************************************************************)
(* Properties.                                                             *)
(***************************************************************************)
HasPart(text, label) == \E i \in 1..Len(text) : text[i][1] = label
PartValue(text, label) == text[CHOOSE i \in 1..Len(text) : text[i][1] = label][2]

LabelOrder == <<"Permit", "Category", "Agency", "(Formerly", "Description",
                "Requirements", "Fees", "Processing Time", "How to Apply",
                "Application URL", "Notes", "Related Permits">>
Rank(label) == CHOOSE i \in 1..Len(LabelOrder) : LabelOrder[i] = label

ChunkText == Val(chunked)[1].text

StoredScore(i) == cosine_similarity(query_vector, Val(faiss_index).vectors[i + 1])

\* C4: search_index returns min(top_k, n) entries <<index, score>> with
\* distinct indexes, by score descending, entries of equal score by
\* ascending index; no entry left out scores more than a returned one; all
\* n entries come back when top_k >= n.
C4_SearchTopK ==
    ~IsNone(results) =>
        LET r == Val(results)
            n == Len(Val(faiss_index).vectors)
            returned == {r[i][1] : i \in 1..Len(r)}
        IN /\ Len(r) = Min(top_k, n)
           /\ \A i \in 1..Len(r) :
                 r[i][1] \in 0..(n - 1) /\ r[i][2] = StoredScore(r[i][1])
           /\ \A i, j \in 1..Len(r) : i # j => r[i][1] # r[j][1]
           /\ \A i \in 1..(Len(r) - 1) :
                 /\ ~ScoreLess(r[i][2], r[i + 1][2])
                 /\ ScoreEq(r[i][2], r[i + 1][2]) => r[i][1] < r[i + 1][1]
           /\ \A m \in (0..(n - 1)) \ returned :
                 \A i \in 1..Len(r) : ~ScoreLess(r[i][2], StoredScore(m))
           /\ top_k >= n => returned = 0..(n - 1)

\* A search that returned two different vectors of equal, non-zero score.
C4_Witness ==
    /\ ~IsNone(results)
    /\ Len(Val(results)) >= 2
    /\ \E i \in 1..(Len(Val(results)) - 1) :
          /\ ScoreEq(Val(results)[i][2], Val(results)[i + 1][2])
          /\ Val(results)[i][2][1] # 0
          /\ Val(faiss_index).vectors[Val(results)[i][1] + 1]
             # Val(faiss_index).vectors[Val(results)[i + 1][1] + 1]

LoadedVectors == Val(Val(loaded).faiss_index).vectors
LoadedChunks == Val(Val(loaded).chunks)

\* C5 as stated: after a completed build, load_index gives back as many
\* vectors as chunks, vector i being exactly what embed_text returned for
\* chunk i and chunk i the built chunk i.
C5_RoundTripExact ==
    ~IsNone(loaded) =>
        /\ Val(loaded).err = ""
        /\ Len(LoadedVectors) = Len(LoadedChunks)
        /\ Len(LoadedChunks) = Len(all_chunks)
        /\ \A i \in 1..Len(all_chunks) :
              /\ LoadedChunks[i] = all_chunks[i]
              /\ Len(LoadedVectors[i]) = Len(vectors[i])
              /\ \A k \in 1..Len(vectors[i]) : LoadedVectors[i][k] = vectors[i][k]

\* C5 amended: after a completed build, load_index gives back as many
\* vectors as chunks, in the same order; chunk i is the built chunk i field
\* for field, and vector i is what embed_text returned for chunk i with
\* every component rounded to the nearest 32-bit float.
C5_RoundTripFloat32 ==
    ~IsNone(loaded) =>
        /\ Val(loaded).err = ""
        /\ Len(LoadedVectors) = Len(LoadedChunks)
        /\ Len(LoadedChunks) = Len(all_chunks)
        /\ \A i \in 1..Len(all_chunks) :
              /\ LoadedChunks[i] = all_chunks[i]
              /\ Len(LoadedVectors[i]) = Len(vectors[i])
              /\ \A k \in 1..Len(vectors[i]) :
                    LoadedVectors[i][k] = ToFloat32(vectors[i][k])

\* A build of two chunks with different embeddings, one component of which
\* no 32-bit float holds, has been loaded.
C5_Witness ==
    /\ ~IsNone(loaded)
    /\ Len(all_chunks) = 2
    /\ vectors[1] # vectors[2]
    /\ all_chunks[1] # all_chunks[2]
    /\ \E k \in 1..Len(vectors[1]) : ToFloat32(vectors[1][k]) # vectors[1][k]

\* C1: a build_index run that fails has left neither a permits.index
\* without its chunks.json nor a truncated permits.index, and nothing is
\* written before every chunk is embedded.
C1_AllOrNothing ==
    /\ ~IsNone(indexFile) => Len(vectors) = Len(all_chunks)
    /\ bpc = "failed" =>
          /\ ~(~IsNone(indexFile) /\ IsNone(chunksFile))
          /\ ~IsNone(indexFile) =>
                ByteLen(Val(indexFile)) = 8 + Len(vectors) * EMBEDDING_DIMENSIONS * 4

Cached == ~IsNone(faiss_index) /\ ~IsNone(chunks)
HalfPopulated == ~IsNone(chunks) /\ IsNone(faiss_index)

\* C2: load_index never ends with a cached index whose vectors and chunks
\* differ in number, and no answer is made by skipping search results.
C2_CountMismatchRejected ==
    /\ Cached => Len(Val(faiss_index).vectors) = Len(Val(chunks))
    /\ ~IsNone(response) => Val(response).dropped = 0

\* C3: load_index succeeds only on a blob of exactly
\* 8 + vector_count * dimensionality * 4 bytes.
C3_ByteLengthChecked ==
    ~IsNone(faiss_index) =>
        ByteLen(Val(tmpIndex))
        = 8 + Len(Val(faiss_index).vectors) * Val(faiss_index).dimensions * 4

\* C7: once the index is cached, an invocation leaves it as it is and reads
\* neither S3 nor a file; and no invocation leaves chunks set with the
\* vectors unset.
C7_PopulatedOnce ==
    [][ /\ (Cached /\ today' = today) =>
              /\ faiss_index' = faiss_index
              /\ chunks' = chunks
              /\ Val(response').s3Gets = 0
              /\ Val(response').fileReads = 0
        /\ ~HalfPopulated' ]_vars

\* The invocation failed in load_index, embed_text or generate_answer.
ServiceFailure ==
    /\ ~IsNone(response)
    /\ Accepted(Val(event))
    /\ Val(response).status = 500

\* C8: a failure of the index load, the embedding or the generation is
\* answered with the "try again" message alone, and the failing call was
\* made once.
C8_GenericFailure ==
    ServiceFailure =>
        /\ DOMAIN Val(response).body = {"error"}
        /\ Val(response).body["error"] = "Something went wrong. Please try again."
        /\ Val(response).embedCalls <= 1
        /\ Val(response).genCalls <= 1
        /\ Val(response).s3Gets <= 2

\* The queries C6 names, and a question that is not a string.
Malformed(ev) ==
    /\ ev.method # "OPTIONS"
    /\ \/ ev.body \in {"unparseable", "nonobject"}
       \/ ev.body = "absent"
       \/ ev.question \in {"missing", "nonstring"}
       \/ ev.core = 0
       \/ ev.core > MaxQuestionLen

C10_DailyLimit ==
    /\ passesToday <= MAX_DAILY_QUERIES
    /\ IsNone(counterFile) => passesToday = 0
    /\ ~IsNone(counterFile) =>
          /\ Val(counterFile).count <= MAX_DAILY_QUERIES
          /\ Val(counterFile).date <= today
          /\ Val(counterFile).date = today => Val(counterFile).count = passesToday
          /\ Val(counterFile).date # today => passesToday = 0
    /\ (~IsNone(response) /\ Val(response).status = 429) =>
          /\ Val(response).s3Gets = 0
          /\ Val(response).fileReads = 0
          /\ Val(response).embedCalls = 0
          /\ Val(response).genCalls = 0
          /\ ~Val(response).counted
    /\ (~IsNone(response) /\ Accepted(Val(event)) /\ Val(response).status # 429) =>
          Val(response).counted

\* On the second date the limit was reached again and an invocation refused.
C10_Witness ==
    /\ today = 2
    /\ passesToday = MAX_DAILY_QUERIES
    /\ ~IsNone(response)
    /\ Val(response).status = 429
    /\ Val(counterFile) = [date |-> 2, count |-> MAX_DAILY_QUERIES]

=============================================================================
